---- MODULE Spec2Model ----
(***************************************************************************)
(* Typing-timing and frame-scheduling pipeline of code_to_video.py:        *)
(* TypingRealism (per-character delays and pauses) and the two frame       *)
(* schedules of CodeToVideoGenerator.generate_video.                       *)
(*                                                                         *)
(* Python floats are modelled as exact rationals [n, d] in lowest terms.   *)
(* Text is a sequence of one-character strings.  A random.gauss(0, s) draw *)
(* is s * z for a standard-normal sample z taken from ZDraws.              *)
(***************************************************************************)
EXTENDS Integers, Sequences, FiniteSets, TLC

(* ------------------------------ bounds --------------------------------- *)

\* Largest magnitude of a standard-normal sample drawn by random.gauss.
MaxZ == 4

\* Samples of the standard normal distribution used for every gauss draw.
ZDraws == {-MaxZ, 0, 1}

(* ------------------------- rational arithmetic ------------------------- *)

Abs(x) == IF x < 0 THEN -x ELSE x

Max(a, b) == IF a >= b THEN a ELSE b

Min(a, b) == IF a <= b THEN a ELSE b

RECURSIVE GCD(_, _)
GCD(a, b) == IF b = 0 THEN a ELSE GCD(b, a % b)

\* The rational n/d (d # 0) in lowest terms with a positive denominator.
Rat(n, d) ==
    LET s == IF d < 0 THEN -1 ELSE 1
        g == GCD(Abs(n), Abs(d))
    IN  [n |-> (s * n) \div g, d |-> (s * d) \div g]

RatAdd(a, b) == Rat(a.n * b.d + b.n * a.d, a.d * b.d)

RatSub(a, b) == Rat(a.n * b.d - b.n * a.d, a.d * b.d)

RatMul(a, b) == Rat(a.n * b.n, a.d * b.d)

RatDiv(a, b) == Rat(a.n * b.d, a.d * b.n)

RatLeq(a, b) == a.n * b.d <= b.n * a.d

RatLt(a, b) == a.n * b.d < b.n * a.d

\* Python max(a, b) and min(a, b): the first argument wins a tie.
RatMax(a, b) == IF RatLt(a, b) THEN b ELSE a

RatMin(a, b) == IF RatLt(b, a) THEN b ELSE a

\* Python int(x) on a float: truncation toward zero.
Trunc(a) == IF a.n >= 0 THEN a.n \div a.d ELSE -((-a.n) \div a.d)

\* A table value written with one decimal in the source, e.g. 1.3 is Tenths(13).
Tenths(k) == Rat(k, 10)

(* ----------------------------- TypingRealism --------------------------- *)

\* self.key_difficulty: <<key, difficulty in tenths>>, in insertion order.
\* The grave-accent key is written "backtick": the lexer cannot hold that
\* character in a string.
key_difficulty ==
    << <<"a", 10>>, <<"s", 10>>, <<"d", 10>>, <<"f", 10>>, <<"j", 10>>, <<"k", 10>>,
       <<"l", 10>>, <<";", 10>>, <<"q", 13>>, <<"w", 12>>, <<"e", 11>>, <<"r", 11>>,
       <<"t", 12>>, <<"y", 12>>, <<"u", 11>>, <<"i", 11>>, <<"o", 12>>, <<"p", 13>>,
       <<"z", 14>>, <<"x", 13>>, <<"c", 12>>, <<"v", 12>>, <<"b", 13>>, <<"n", 13>>,
       <<"m", 12>>, <<",", 12>>, <<".", 13>>, <<"/", 14>>, <<"g", 11>>, <<"h", 11>>,
       <<"1", 18>>, <<"2", 16>>, <<"3", 15>>, <<"4", 14>>, <<"5", 14>>, <<"6", 14>>,
       <<"7", 14>>, <<"8", 15>>, <<"9", 16>>, <<"0", 18>>, <<"!", 22>>, <<"@", 20>>,
       <<"#", 19>>, <<"$", 18>>, <<"%", 18>>, <<"^", 18>>, <<"&", 18>>, <<"*", 19>>,
       <<"(", 20>>, <<")", 22>>, <<"-", 15>>, <<"_", 20>>, <<"=", 16>>, <<"+", 21>>,
       <<"[", 17>>, <<"]", 18>>, <<"{", 22>>, <<"}", 23>>, <<"\\", 19>>, <<"|", 24>>,
       <<"'", 14>>, <<"\"", 18>>, <<"backtick", 17>>, <<"~", 21>>, <<"<", 16>>, <<">", 17>>,
       <<"?", 18>>, <<":", 16>>, <<" ", 9>>, <<"\t", 11>>, <<"\n", 12>> >>

\* self.fast_patterns: <<pattern, multiplier in tenths>>, in insertion order
\* (dict iteration order).
fast_patterns ==
    << <<<<"(", ")">>, 8>>, <<<<"[", "]">>, 8>>,
       <<<<"{", "}">>, 8>>, <<<<"\"", "\"">>, 8>>,
       <<<<"'", "'">>, 8>>, <<<<"-", ">">>, 7>>,
       <<<<"=", ">">>, 7>>, <<<<"=", "=">>, 7>>,
       <<<<"!", "=">>, 8>>, <<<<"<", "=">>, 8>>,
       <<<<">", "=">>, 8>>, <<<<"&", "&">>, 8>>,
       <<<<"|", "|">>, 8>>, <<<<"+", "+">>, 8>>,
       <<<<"-", "-">>, 8>>, <<<<"d", "e", "f", " ">>, 6>>,
       <<<<"f", "u", "n", "c", "t", "i", "o", "n">>, 7>>, <<<<"c", "o", "n", "s", "t", " ">>, 7>>,
       <<<<"l", "e", "t", " ">>, 6>>, <<<<"i", "m", "p", "o", "r", "t", " ">>, 7>>,
       <<<<"f", "r", "o", "m", " ">>, 7>>, <<<<"r", "e", "t", "u", "r", "n", " ">>, 7>>,
       <<<<"i", "f", " ">>, 6>>, <<<<"e", "l", "s", "e">>, 7>>,
       <<<<"f", "o", "r", " ">>, 6>>, <<<<"w", "h", "i", "l", "e", " ">>, 7>>,
       <<<<"t", "r", "u", "e">>, 7>>, <<<<"f", "a", "l", "s", "e">>, 7>>,
       <<<<"n", "u", "l", "l">>, 7>>, <<<<"u", "n", "d", "e", "f", "i", "n", "e", "d">>, 8>> >>

\* self.slow_patterns: <<pattern, multiplier in tenths>>, in insertion order.
slow_patterns ==
    << <<<<"/", "*">>, 13>>, <<<<"*", "/">>, 13>>,
       <<<<"<", "!", "-", "-">>, 15>>, <<<<"-", "-", ">">>, 15>>,
       <<<<"T", "O", "D", "O">>, 14>>, <<<<"F", "I", "X", "M", "E">>, 14>>,
       <<<<"N", "O", "T", "E">>, 13>>, <<<<"c", "o", "n", "s", "o", "l", "e", ".", "l", "o", "g">>, 12>>,
       <<<<"p", "r", "i", "n", "t", "(">>, 11>>, <<<<"p", "r", "i", "n", "t", "f">>, 12>> >>

UpperCase ==
    << "A", "B", "C", "D", "E", "F", "G", "H", "I", "J", "K", "L", "M",
       "N", "O", "P", "Q", "R", "S", "T", "U", "V", "W", "X", "Y", "Z" >>

LowerCase ==
    << "a", "b", "c", "d", "e", "f", "g", "h", "i", "j", "k", "l", "m",
       "n", "o", "p", "q", "r", "s", "t", "u", "v", "w", "x", "y", "z" >>

\* char.lower() for one character.
Lower(char) ==
    IF \E i \in 1..Len(UpperCase) : UpperCase[i] = char
    THEN LowerCase[CHOOSE i \in 1..Len(UpperCase) : UpperCase[i] = char]
    ELSE char

\* self.key_difficulty.get(char_lower, 1.5)
Difficulty(char) ==
    LET char_lower == Lower(char) IN
    IF \E i \in 1..Len(key_difficulty) : key_difficulty[i][1] = char_lower
    THEN Tenths(key_difficulty[CHOOSE i \in 1..Len(key_difficulty) :
                                   key_difficulty[i][1] = char_lower][2])
    ELSE Tenths(15)

\* context[max(0, position-10):position+10] for position >= 0.
Window(context, position) ==
    SubSeq(context, Max(0, position - 10) + 1, Min(position + 10, Len(context)))

\* Python's "pattern in text" for a non-empty pattern.
Contains(pattern, text) ==
    \E i \in 1..(Len(text) - Len(pattern) + 1) :
        SubSeq(text, i, i + Len(pattern) - 1) = pattern

\* The loop "for pattern, multiplier in table.items()" from entry k on: the
\* index of the entry at which it takes its break, 0 when it runs to the end.
RECURSIVE FirstMatchFrom(_, _, _)
FirstMatchFrom(table, window, k) ==
    IF k > Len(table) THEN 0
    ELSE IF Contains(table[k][1], window) THEN k
    ELSE FirstMatchFrom(table, window, k + 1)

FirstMatch(table, window) == FirstMatchFrom(table, window, 1)

\* pattern_multiplier after the loop over self.fast_patterns.
FastLoop(window) ==
    LET i == FirstMatch(fast_patterns, window) IN
    IF i = 0 THEN Rat(1, 1)
    ELSE RatMin(Rat(1, 1), Tenths(fast_patterns[i][2]))

\* pattern_multiplier after the loop over self.slow_patterns, entered with
\* the value pm left by the fast loop.
SlowLoop(pm, window) ==
    LET i == FirstMatch(slow_patterns, window) IN
    IF i = 0 THEN pm
    ELSE RatMax(pm, Tenths(slow_patterns[i][2]))

\* base_delay = 1.0 / self.base_speed
BaseDelay(self) == Rat(1, self.base_speed)

\* Mutation of RealismDelay: the self.realistic test is lost.
RealismDelayUnguarded(self, char, context, position) ==
    LET window == Window(context, position) IN
    RatMul(RatMul(BaseDelay(self), Difficulty(char)),
           SlowLoop(FastLoop(window), window))

\* The realism branch: base_delay * difficulty * pattern_multiplier, or
\* base_delay when self.realistic is false.
RealismDelay(self, char, context, position) ==
    IF self.realistic
    THEN LET window == Window(context, position) IN
         RatMul(RatMul(BaseDelay(self), Difficulty(char)),
                SlowLoop(FastLoop(window), window))
    ELSE BaseDelay(self)

\* random.gauss(mu, sigma) for the standard-normal sample z.
Gauss(mu, sigma, z) == RatAdd(mu, RatMul(sigma, Rat(z, 1)))

\* Mutation of AddVariation: the variation is added whatever self.randomness
\* is, with a standard deviation that is not scaled by it.
AddVariationUnscaled(self, adjusted_delay, z) ==
    LET std_dev == RatMul(adjusted_delay, Tenths(3))
    IN  RatAdd(adjusted_delay, Gauss(Rat(0, 1), std_dev, z))

\* The randomness branch of get_character_delay applied to adjusted_delay.
AddVariation(self, adjusted_delay, z) ==
    IF self.randomness > 0
    THEN LET std_dev == RatMul(RatMul(adjusted_delay, Tenths(3)),
                               Rat(self.randomness, 1))
         IN  RatAdd(adjusted_delay, Gauss(Rat(0, 1), std_dev, z))
    ELSE adjusted_delay

\* Mutation of ClampMinimum: the floor is not applied.
ClampMinimumDropped(self, adjusted_delay) == adjusted_delay

\* max(adjusted_delay, base_delay * 0.2)
ClampMinimum(self, adjusted_delay) ==
    RatMax(adjusted_delay, RatMul(BaseDelay(self), Tenths(2)))

\* TypingRealism.get_character_delay; z is the sample behind the gauss draw
\* (unused when self.randomness is 0).
get_character_delay(self, char, context, position, z) ==
    ClampMinimum(self,
        AddVariation(self, RealismDelay(self, char, context, position), z))

\* pause_multipliers.get(pause_type, 1.0)
PauseMultiplier(pause_type) ==
    CASE pause_type = "comma"     -> Tenths(20)
      [] pause_type = "period"    -> Tenths(30)
      [] pause_type = "semicolon" -> Tenths(25)
      [] pause_type = "newline"   -> Tenths(15)
      [] pause_type = "thinking"  -> Tenths(40)
      [] pause_type = "brace"     -> Tenths(18)
      [] OTHER                    -> Tenths(10)

\* TypingRealism.get_pause_delay
get_pause_delay(self, pause_type, z) ==
    LET pause_delay == IF self.realistic
                       THEN RatMul(BaseDelay(self), PauseMultiplier(pause_type))
                       ELSE BaseDelay(self)
    IN  IF self.randomness > 0
        THEN LET std_dev   == RatMul(RatMul(pause_delay, Tenths(4)),
                                     Rat(self.randomness, 1))
                 variation == RatMax(Rat(0, 1), Gauss(Rat(0, 1), std_dev, z))
             IN  RatAdd(pause_delay, variation)
        ELSE pause_delay

(* ------------------------------- inputs -------------------------------- *)

\* CodeBlock.code values (stripped, non-empty): "hi", ".c", "a\nb", "()".
Snippets ==
    { <<"h", "i">>, <<".", "c">>, <<"a", "\n", "b">>, <<"(", ")">> }

\* The code_blocks lists handed to generate_video.
Runs ==
    { <<s>> : s \in Snippets } \cup
    { << <<"h", "i">>, <<".", "c">> >>,
      << <<"(", ")">>, <<"h", "i">>, <<"h", "i">> >> }

\* VideoConfig values: fps, typing_speed, pause_duration, realistic, randomness.
Configs ==
    [ fps            : {15, 30},
      typing_speed   : {15, 60},
      pause_duration : {Rat(2, 1), Rat(1, 4)},
      realistic      : BOOLEAN,
      randomness     : {0, 1} ]

\* TypingRealism(base_speed, realistic, randomness) instances built directly.
Realisms ==
    [ base_speed : {15, 30}, realistic : BOOLEAN, randomness : {0, 1} ]

\* Arguments of direct get_character_delay calls.
Chars == {"a", "Q", "!", "(", "\r"}

Contexts ==
    { << >>,
      <<"(", ")", "-", ">">>,
      <<"/", "*", "-", "-", ">">>,
      <<"(", ")", "/", "*">>,
      <<"/", "*", "T", "O", "D", "O">>,
      <<"i", "f", " ", "=", "=">>,
      <<"(", ")", "a", "a", "a", "a", "a", "a", "a", "a", "a", "/", "*">> }

Positions == {0, 3, 12}

CallArgs == [char : Chars, context : Contexts, position : Positions]

\* Python's None.
None == [none |-> TRUE]

\* Texts handed to create_frame and _calculate_indentation_width: "ab",
\* "a\n b", "x\n\ty\n  z" and "f:\n    a\n        b".
Texts ==
    { <<"a", "b">>,
      <<"a", "\n", " ", "b">>,
      <<"x", "\n", "\t", "y", "\n", " ", " ", "z">>,
      <<"f", ":", "\n", " ", " ", " ", " ", "a",
        "\n", " ", " ", " ", " ", " ", " ", " ", " ", "b">> }

\* Token lists a highlighter returns for text: the single default token, the
\* text cut in two after its first or before its last character, and one
\* token per character followed by the newline the lexer appends.
Tokenizations(text) ==
    { << <<text, "default">> >> } \cup
    { << <<SubSeq(text, 1, k), "keyword">>,
         <<SubSeq(text, k + 1, Len(text)), "default">> >> :
          k \in {1, Len(text) - 1} } \cup
    { [k \in 1..(Len(text) + 1) |->
          IF k <= Len(text) THEN << <<text[k]>>, "default" >>
          ELSE << <<"\n">>, "default" >>] }

\* ImageFont.truetype(DejaVuSansMono.ttf, 16): every glyph, the space
\* included, is 10 pixels wide.
DejaVuSansMono == [space_width |-> 10]

\* self.font after _load_font: a monospace font, or None when none loads.
Fonts == {None, DejaVuSansMono}

\* JSON values as json.load returns them, each under its Python type.
JList(v) == [list |-> v]

JStr(v) == [str |-> v]

JInt(v) == [int |-> v]

JDict(v) == [dict |-> v]

\* isinstance(j, type)
Is(j, type) == type \in DOMAIN j

\* The text of a theme file that json.load parses to theme_data.
Json(theme_data) == [parses |-> TRUE, data |-> theme_data]

\* The text of a theme file that is no JSON.
NotJson == [parses |-> FALSE, data |-> JStr("{not json")]

\* A theme file with the five keys, each of the documented shape.
WellFormed(name) ==
    Json(JDict([name        |-> JStr(name),
                description |-> JStr("a theme"),
                background  |-> JList(<<1, 2, 3>>),
                cursor      |-> JList(<<4, 5, 6>>),
                colors      |-> JDict([default |-> JList(<<7, 8, 9>>)])]))

\* Theme files with a shape error: a key left out, a background that is a
\* number, colors that are a list, a document that is a list.
MissingKey ==
    Json(JDict([name        |-> JStr("NoColors"),
                description |-> JStr("a theme"),
                background  |-> JList(<<1, 2, 3>>),
                cursor      |-> JList(<<4, 5, 6>>)]))

NumberBackground ==
    Json(JDict([name        |-> JStr("Bad"),
                description |-> JStr("a theme"),
                background  |-> JInt(5),
                cursor      |-> JList(<<4, 5, 6>>),
                colors      |-> JDict([default |-> JList(<<7, 8, 9>>)])]))

ListColors ==
    Json(JDict([name        |-> JStr("Bad"),
                description |-> JStr("a theme"),
                background  |-> JList(<<1, 2, 3>>),
                cursor      |-> JList(<<4, 5, 6>>),
                colors      |-> JList(<<7, 8, 9>>)]))

ListDocument == Json(JList(<<1, 2>>))

Malformed == {NotJson, MissingKey, NumberBackground, ListColors, ListDocument}

\* The files a themes directory may hold.
ThemeFiles ==
    [ stem : {"dark", "solar"}, ext : {".json"},
      text : {WellFormed("Solar"), WellFormed("Midnight")} \cup Malformed ]
    \cup { [stem |-> "notes", ext |-> ".txt", text |-> NotJson] }

\* os.listdir(themes_dir) for the directories of at most two files, in any
\* order; None stands for a themes_dir that does not exist.
Directories ==
    {None} \cup
    { [listing |-> << >>] } \cup
    { [listing |-> <<f>>] : f \in ThemeFiles } \cup
    { d \in { [listing |-> <<f, g>>] : f \in ThemeFiles, g \in ThemeFiles } :
          d.listing[1].stem # d.listing[2].stem }

\* The names get_theme is asked for.
ThemeNames == {"dark", "light", "solar", "monokai"}

(* -------------------------------- state -------------------------------- *)

VARIABLES
    config,            \* self.config of the CodeToVideoGenerator
    typing_realism,    \* the TypingRealism instance
    code_blocks,       \* argument of generate_video: block.code per block
    languages,         \* block.language per block
    highlighted_tokens,\* local of generate_video
    pc,                \* position in generate_video
    i,                 \* index of the block being processed, from 1
    current_pos,       \* local of _generate_realistic_typing_frames
    accumulated_time,  \* local of _generate_realistic_typing_frames
    ulps,              \* what the float accumulated_time differs by from the
                       \* rational above, in units in its last place
    frame_num,         \* loop variable of _generate_uniform_typing_frames
    out,               \* the cv2.VideoWriter: its state and the frames written
    typed,             \* locals of the last iteration of the realistic loop,
                       \* and the sum of the delays of the block so far
    font,              \* self.font of the CodeToVideoGenerator, or None
    theme_manager,     \* a ThemeManager built directly: its _themes
    args,              \* the arguments the direct calls are made with
    call,              \* the last direct call: what varied and its result
    returned,          \* the delays the direct calls have returned so far
    hits               \* number of direct calls made, counted up to 2

vars == << config, typing_realism, code_blocks, languages,
           highlighted_tokens, pc, i, current_pos,
           accumulated_time, ulps, frame_num, out, typed, font,
           theme_manager,
           args, call, returned, hits >>

pipeline == << config, code_blocks, languages, highlighted_tokens, pc, i,
               current_pos, accumulated_time, ulps, frame_num, out, typed >>

direct == << font, theme_manager, args, call, returned, hits >>

(* ----------------------------- ThemeManager ---------------------------- *)

\* What a call gives back: the value it returns, or the exception it raises.
Returns(value) == [raised |-> "", value |-> value]

Raises(exception) == [raised |-> exception, value |-> None]

\* tuple(v) succeeds: v can be iterated.
Iterable(j) == Is(j, "list") \/ Is(j, "str") \/ Is(j, "dict")

\* tuple(j) of a list; the strings and dicts tuple() also takes are in no
\* theme file of the model.
TupleOf(j) == j.list

\* Theme.__init__: tuple(background), tuple(cursor), colors.items() and
\* tuple(v) of every colour.
Theme(name, description, background, cursor, colors) ==
    IF ~Iterable(background) \/ ~Iterable(cursor) THEN Raises("TypeError")
    ELSE IF ~Is(colors, "dict") THEN Raises("AttributeError")
    ELSE IF \E k \in DOMAIN colors.dict : ~Iterable(colors.dict[k])
    THEN Raises("TypeError")
    ELSE Returns([name        |-> name,
                  description |-> description,
                  background  |-> TupleOf(background),
                  cursor      |-> TupleOf(cursor),
                  colors      |-> [k \in DOMAIN colors.dict |->
                                       TupleOf(colors.dict[k])]])

\* Lines 195-206: the body of the try block for one theme file.
ReadThemeFile(file) ==
    IF ~file.text.parses THEN Raises("JSONDecodeError")
    ELSE LET theme_data == file.text.data IN
         IF ~Is(theme_data, "dict") THEN Raises("TypeError")
         ELSE IF {"name", "description", "background", "cursor", "colors"}
                     \ DOMAIN theme_data.dict # {}
         THEN Raises("KeyError")
         ELSE Theme(theme_data.dict.name, theme_data.dict.description,
                    theme_data.dict.background, theme_data.dict.cursor,
                    theme_data.dict.colors)

\* Line 210: except (json.JSONDecodeError, KeyError, FileNotFoundError)
Caught == {"JSONDecodeError", "KeyError", "FileNotFoundError"}

\* self._themes[theme_name] = theme, on a dict kept in insertion order.
Put(themes, theme_name, theme) ==
    IF \E k \in 1..Len(themes) : themes[k].key = theme_name
    THEN [k \in 1..Len(themes) |->
              IF themes[k].key = theme_name
              THEN [key |-> theme_name, theme |-> theme] ELSE themes[k]]
    ELSE Append(themes, [key |-> theme_name, theme |-> theme])

\* The built-in themes of _load_default_themes.
DarkTheme ==
    [name        |-> JStr("Dark"),
     description |-> JStr("Default dark theme"),
     background  |-> <<40, 44, 52>>,
     cursor      |-> <<255, 255, 255>>,
     colors      |-> [keyword  |-> <<198, 120, 221>>,
                      string   |-> <<152, 195, 121>>,
                      comment  |-> <<92, 99, 112>>,
                      number   |-> <<209, 154, 102>>,
                      function |-> <<97, 175, 239>>,
                      class    |-> <<229, 192, 123>>,
                      operator |-> <<86, 182, 194>>,
                      default  |-> <<171, 178, 191>>]]

LightTheme ==
    [name        |-> JStr("Light"),
     description |-> JStr("Default light theme"),
     background  |-> <<255, 255, 255>>,
     cursor      |-> <<0, 0, 0>>,
     colors      |-> [keyword  |-> <<128, 0, 128>>,
                      string   |-> <<0, 128, 0>>,
                      comment  |-> <<128, 128, 128>>,
                      number   |-> <<255, 140, 0>>,
                      function |-> <<0, 0, 255>>,
                      class    |-> <<184, 134, 11>>,
                      operator |-> <<0, 139, 139>>,
                      default  |-> <<0, 0, 0>>]]

load_default_themes(themes) ==
    Put(Put(themes, "dark", DarkTheme), "light", LightTheme)

\* Lines 190-215: the loop of _load_themes from the k-th name of the
\* listing on, then the defaults when nothing was loaded.
RECURSIVE LoadFrom(_, _, _)
LoadFrom(listing, k, themes) ==
    IF k > Len(listing)
    THEN Returns(IF themes = << >> THEN load_default_themes(themes)
                 ELSE themes)
    ELSE IF listing[k].ext # ".json" THEN LoadFrom(listing, k + 1, themes)
    ELSE LET read == ReadThemeFile(listing[k]) IN
         IF read.raised = ""
         THEN LoadFrom(listing, k + 1,
                       Put(themes, listing[k].stem, read.value))
         ELSE IF read.raised \in Caught
         THEN LoadFrom(listing, k + 1, themes)
         ELSE Raises(read.raised)

\* ThemeManager(themes_dir): _load_themes over the directory, or the
\* defaults when it does not exist; gives _themes, or the exception that
\* leaves the constructor.
load_themes(themes_dir) ==
    IF themes_dir = None THEN Returns(load_default_themes(<< >>))
    ELSE LoadFrom(themes_dir.listing, 1, << >>)

\* The names under which themes are stored.
Keys(themes) == { themes[k].key : k \in 1..Len(themes) }

Stored(themes, theme_name) ==
    themes[CHOOSE k \in 1..Len(themes) : themes[k].key = theme_name].theme

\* Mutation of Fallback: the first theme, whether or not there is a dark one.
FallbackFirstLoaded(themes) ==
    IF themes = << >> THEN Raises("IndexError")
    ELSE Returns(themes[1].theme)

\* Line 264: self._themes.get('dark', list(self._themes.values())[0])
Fallback(themes) ==
    IF themes = << >> THEN Raises("IndexError")
    ELSE IF "dark" \in Keys(themes) THEN Returns(Stored(themes, "dark"))
    ELSE Returns(themes[1].theme)

\* ThemeManager.get_theme(theme_name) over _themes = themes.
get_theme(themes, theme_name) ==
    IF theme_name \in Keys(themes) THEN Returns(Stored(themes, theme_name))
    ELSE Fallback(themes)

(* --------------------------- SyntaxHighlighter ------------------------- *)

\* CodeBlock.__init__: language.lower() if language else 'text', for fence
\* labels already in lower case.
CodeBlockLanguage(label) == IF label = "" THEN "text" ELSE label

\* The fence labels of the blocks, and the languages CodeBlock makes of them.
Labels == {"python", "", "text", "nosuch", "broken"}

Languages == { CodeBlockLanguage(label) : label \in Labels }

\* pygments: str(token_type).split('.')[-1].lower() of the token the lexer
\* gives a character -- Token.Name for a letter, Token.Operator for a dot,
\* Token.Punctuation for a bracket, Token.Text.Whitespace for a newline and
\* Token.Text otherwise.
TokenName(char) ==
    IF \E k \in 1..Len(LowerCase) : Lower(char) = LowerCase[k]
    THEN <<"n", "a", "m", "e">>
    ELSE IF char = "." THEN <<"o", "p", "e", "r", "a", "t", "o", "r">>
    ELSE IF char \in {"(", ")"}
    THEN <<"p", "u", "n", "c", "t", "u", "a", "t", "i", "o", "n">>
    ELSE IF char = "\n"
    THEN <<"w", "h", "i", "t", "e", "s", "p", "a", "c", "e">>
    ELSE <<"t", "e", "x", "t">>

\* Lines 338-354: the colour category of a token name.
ColorKey(token_name) ==
    IF Contains(<<"k", "e", "y", "w", "o", "r", "d">>, token_name)
    THEN "keyword"
    ELSE IF Contains(<<"s", "t", "r", "i", "n", "g">>, token_name)
            \/ Contains(<<"l", "i", "t", "e", "r", "a", "l">>, token_name)
    THEN IF Contains(<<"s", "t", "r", "i", "n", "g">>, token_name)
         THEN "string" ELSE "number"
    ELSE IF Contains(<<"c", "o", "m", "m", "e", "n", "t">>, token_name)
    THEN "comment"
    ELSE IF Contains(<<"n", "a", "m", "e">>, token_name)
    THEN IF Contains(<<"f", "u", "n", "c", "t", "i", "o", "n">>, token_name)
         THEN "function"
         ELSE IF Contains(<<"c", "l", "a", "s", "s">>, token_name)
         THEN "class" ELSE "default"
    ELSE IF Contains(<<"o", "p", "e", "r", "a", "t", "o", "r">>, token_name)
            \/ Contains(<<"p", "u", "n", "c", "t", "u", "a", "t", "i", "o",
                          "n">>, token_name)
    THEN "operator"
    ELSE "default"

\* get_lexer_by_name(language, stripall=True): a lexer for python, a lexer
\* whose get_tokens fails for broken, ClassNotFound for any other name.
get_lexer_by_name(language) ==
    IF language \in {"python", "broken"} THEN Returns(language)
    ELSE Raises("ClassNotFound")

\* list(lexer.get_tokens(code)): one token per character, then the newline
\* get_tokens appends to a text that does not end with one.
get_tokens(lexer, code) ==
    IF lexer = "broken" THEN Raises("RuntimeError")
    ELSE Returns([k \in 1..(Len(code) + 1) |->
                     IF k <= Len(code) THEN << TokenName(code[k]), <<code[k]>> >>
                     ELSE << TokenName("\n"), <<"\n">> >>])

\* Lines 329-357: the body of the try block of get_highlighted_text.
TryHighlight(code, language) ==
    IF language = "text" \/ language = ""
    THEN Returns(<< <<code, "default">> >>)
    ELSE LET lexer == get_lexer_by_name(language) IN
         IF lexer.raised # "" THEN lexer
         ELSE LET tokens == get_tokens(lexer.value, code) IN
              IF tokens.raised # "" THEN tokens
              ELSE Returns([k \in 1..Len(tokens.value) |->
                               << tokens.value[k][2],
                                  ColorKey(tokens.value[k][1]) >>])

\* Mutation of ExceptException: the exception is raised again.
ExceptExceptionRaisesAgain(code, attempt) == attempt

\* Lines 359-361: except Exception -- the code as one default token.
ExceptException(code, attempt) == Returns(<< <<code, "default">> >>)

\* SyntaxHighlighter.get_highlighted_text(code, language); language "" also
\* stands for None.
get_highlighted_text(code, language) ==
    LET attempt == TryHighlight(code, language) IN
    IF attempt.raised # "" THEN ExceptException(code, attempt) ELSE attempt

(* ------------------------- CodeToVideoGenerator ------------------------ *)

\* Mutation of CursorDrawn: the cursor is drawn at the end of the text too.
CursorDrawnThroughEnd(text_content, pos) == pos <= Len(text_content)

\* Line 496: if current_pos < len(text_content)
CursorDrawn(text_content, pos) == pos < Len(text_content)

\* What create_frame draws that depends on current_pos: the number of
\* characters revealed and whether the cursor bar is drawn.
create_frame(text_content, pos) ==
    [revealed |-> pos, cursor |-> CursorDrawn(text_content, pos)]

\* VideoConfig.font_size
font_size == 16

\* x, y = 20, 20 and left_margin = 20
left_margin == 20

\* line_height = self.config.font_size + 4
line_height == font_size + 4

\* Mutation of IndentUnit: a tab counts as one space.
IndentUnitTabAsSpace(char) == 1

\* Lines 420-425: the width-units of one indentation character.
IndentUnit(char) == IF char = "\t" THEN 4 ELSE 1

\* Lines 419-426: the while loop of _calculate_indentation_width from the
\* 0-based position pos.
RECURSIVE IndentLoop(_, _)
IndentLoop(text, pos) ==
    IF pos < Len(text) /\ text[pos + 1] \in {" ", "\t"}
    THEN IndentUnit(text[pos + 1]) + IndentLoop(text, pos + 1)
    ELSE 0

\* self._calculate_indentation_width(text, start_pos), for self.font = f.
calculate_indentation_width(f, text, start_pos) ==
    IF start_pos >= Len(text) THEN 0
    ELSE LET indent_width == IndentLoop(text, start_pos)
         IN  IF f # None THEN indent_width * f.space_width
             ELSE indent_width * 8

\* Lines 469-483 of create_frame: the characters of text_to_process from the
\* k-th on, with the pen at (x, y) and line characters in current_line.
RECURSIVE DrawCharacters(_, _, _, _, _, _, _, _)
DrawCharacters(f, text_content, text_to_process, char_count, k, x, y, line) ==
    IF k > Len(text_to_process)
    THEN [x |-> x, y |-> y, current_line |-> line]
    ELSE IF text_to_process[k] = "\n"
         THEN DrawCharacters(f, text_content, text_to_process, char_count,
                             k + 1,
                             left_margin +
                                 calculate_indentation_width(
                                     f, text_content, char_count + (k - 1) + 1),
                             y + line_height, 0)
         ELSE DrawCharacters(f, text_content, text_to_process, char_count,
                             k + 1, x, y, line + 1)

\* Lines 451-493 of create_frame: the token loop from the t-th token on; the
\* line left in current_line is drawn and the pen moved to the right edge
\* of its bounding box, which happens only with a font.
RECURSIVE DrawTokens(_, _, _, _, _, _, _, _)
DrawTokens(f, text_content, tokens, pos, t, char_count, x, y) ==
    IF t > Len(tokens) \/ char_count >= pos
    THEN [x |-> x, y |-> y]
    ELSE LET token_text       == tokens[t][1]
             chars_to_process == Min(Len(token_text), pos - char_count)
         IN  IF chars_to_process <= 0
             THEN [x |-> x, y |-> y]
             ELSE LET pen == DrawCharacters(
                                 f, text_content,
                                 SubSeq(token_text, 1, chars_to_process),
                                 char_count, 1, x, y, 0)
                      right == IF pen.current_line > 0 /\ f # None
                               THEN pen.x + pen.current_line * f.space_width
                               ELSE pen.x
                  IN  DrawTokens(f, text_content, tokens, pos,
                                 t + 1, char_count + chars_to_process,
                                 right, pen.y)

\* create_frame(text_content, highlighted_tokens, current_pos) for
\* self.font = f: where the pen ends, and the rectangle of the cursor bar
\* when one is drawn.
Render(f, text_content, tokens, pos) ==
    LET pen == DrawTokens(f, text_content, tokens, pos, 1, 0,
                          left_margin, left_margin)
    IN  [pen    |-> pen,
         cursor |-> IF CursorDrawn(text_content, pos)
                    THEN << pen.x, pen.y, pen.x + 2, pen.y + font_size >>
                    ELSE None]

\* out.write(frame) repeated reps times by the loop named by; one entry per
\* loop, none when the loop body never runs.
Write(sink, frame, reps, by) ==
    IF reps > 0
    THEN [sink EXCEPT !.frames =
              Append(@, [frame |-> frame, n |-> reps, by |-> by, block |-> i])]
    ELSE sink

\* out.release()
Release(sink) ==
    [sink EXCEPT !.state = "released", !.releases = @ + 1]

\* Mutation of Finally: the release follows the loop without try/finally, so
\* an exception leaves generate_video before it.
FinallyOnlyAfterLoop(sink, raising) ==
    IF raising THEN sink ELSE Release(sink)

\* Lines 536-538: the finally clause of generate_video, run when the loop has
\* ended and when an exception is leaving the try block (raising).
Finally(sink, raising) == Release(sink)

\* Mutation of Schedule: "and" in place of "or".
ScheduleBothNeeded(cfg) ==
    IF cfg.realistic /\ cfg.randomness > 0 THEN "realistic" ELSE "uniform"

\* Line 518: the schedule generate_video selects for a block.
Schedule(cfg) ==
    IF cfg.realistic \/ cfg.randomness > 0 THEN "realistic" ELSE "uniform"

\* The if/elif chain that picks the natural pause after a character.
PauseType(char) ==
    IF char \in {",", ".", ";"} THEN "comma"
    ELSE IF char \in {".", "!", "?"} THEN "period"
    ELSE IF char = "\n" THEN "newline"
    ELSE IF char \in {"{", "}", "[", "]", "(", ")"} THEN "brace"
    ELSE "none"

\* frame_time = 1.0 / self.config.fps
FrameTime(cfg) == Rat(1, cfg.fps)

\* Mutation of FramesToWrite: the "at least 1 frame" is lost.
FramesToWriteNoMinimum(frames_to_generate) == frames_to_generate

\* range(max(1, frames_to_generate))
FramesToWrite(frames_to_generate) == Max(1, frames_to_generate)

\* chars_per_frame = self.config.typing_speed / self.config.fps
CharsPerFrame(cfg) == Rat(cfg.typing_speed, cfg.fps)

\* total_frames = int(total_chars / chars_per_frame) + 1
TotalFrames(cfg, total_chars) ==
    Trunc(RatDiv(Rat(total_chars, 1), CharsPerFrame(cfg))) + 1

\* Mutation of UniformPos: the position of the next frame, not clamped.
UniformPosNextUnclamped(cfg, k, total_chars) ==
    Trunc(RatMul(Rat(k + 1, 1), CharsPerFrame(cfg)))

\* current_pos = min(int(frame_num * chars_per_frame), total_chars)
UniformPos(cfg, k, total_chars) ==
    Min(Trunc(RatMul(Rat(k, 1), CharsPerFrame(cfg))), total_chars)

\* Mutation of HoldFrames: the pause is cut to whole seconds first.
HoldFramesWholeSeconds(cfg) == cfg.fps * Trunc(cfg.pause_duration)

\* int(self.config.fps * self.config.pause_duration)
HoldFrames(cfg) == Trunc(RatMul(Rat(cfg.fps, 1), cfg.pause_duration))

\* int(self.config.fps * 0.5)
ClearFrames(cfg) == Trunc(RatMul(Rat(cfg.fps, 1), Tenths(5)))

\* Mutation of HasNextBlock: the separator follows every block.
HasNextBlockAlways(idx, blocks) == TRUE

\* Line 529: i < len(code_blocks) - 1, for the index idx counted from 1.
HasNextBlock(idx, blocks) == idx < Len(blocks)

Init ==
    /\ config \in Configs
    /\ typing_realism = [base_speed |-> config.typing_speed,
                         realistic  |-> config.realistic,
                         randomness |-> config.randomness]
    /\ code_blocks \in Runs
    /\ languages = [b \in 1..Len(code_blocks) |-> "python"]
    /\ highlighted_tokens = << >>
    /\ pc = "idle"
    /\ i = 1
    /\ current_pos = 0
    /\ accumulated_time = Rat(0, 1)
    /\ ulps = 0
    /\ frame_num = 0
    /\ out = [state |-> "closed", frames |-> << >>, releases |-> 0]
    /\ typed = None
    /\ font = DejaVuSansMono
    /\ theme_manager = None
    /\ args = None
    /\ call = None
    /\ returned = {}
    /\ hits = 0

\* generate_video, lines 506-510: the writer is created and the loop entered.
OpenSink ==
    /\ pc = "idle"
    /\ out' = [out EXCEPT !.state = "open"]
    /\ pc' = "loop"
    /\ UNCHANGED << config, typing_realism, code_blocks, languages,
                    highlighted_tokens, i, current_pos, accumulated_time,
                    ulps, frame_num, typed, direct >>

\* Lines 511-521: the next block is taken and its schedule entered.
BeginBlock ==
    /\ pc = "loop"
    /\ i <= Len(code_blocks)
    /\ LET highlighted == get_highlighted_text(code_blocks[i], languages[i])
       IN  IF highlighted.raised = ""
           THEN /\ highlighted_tokens' = highlighted.value
                /\ pc' = Schedule(config)
                /\ out' = out
           ELSE /\ highlighted_tokens' = highlighted_tokens
                /\ pc' = "raised"
                /\ out' = Finally(out, TRUE)
    /\ current_pos' = 0
    /\ accumulated_time' = Rat(0, 1)
    /\ ulps' = 0
    /\ frame_num' = 0
    /\ typed' = None
    /\ UNCHANGED << config, typing_realism, code_blocks, languages, i,
                    direct >>

\* Lines 546-572: the locals of one iteration of the while loop of
\* _generate_realistic_typing_frames, for the samples z and zp of the random
\* source; carried is the accumulated_time left for the next iteration.
Iteration(z, zp) ==
    LET code       == code_blocks[i]
        char       == code[current_pos + 1]
        pause_type == PauseType(char)
        delay      == get_character_delay(typing_realism, char, code,
                                          current_pos, z)
        char_delay == IF pause_type = "none" THEN delay
                      ELSE RatAdd(delay, get_pause_delay(typing_realism,
                                                         pause_type, zp))
        total      == RatAdd(accumulated_time, char_delay)
        frames_to_generate == Trunc(RatDiv(total, FrameTime(config)))
    IN  [char               |-> char,
         pause_type         |-> pause_type,
         char_delay         |-> char_delay,
         frames_to_generate |-> frames_to_generate,
         carried            |-> RatSub(total,
                                       RatMul(Rat(frames_to_generate, 1),
                                              FrameTime(config)))]

\* Lines 565-572 compute in binary floating point: the delays, frame_time
\* and their sum are rounded, so where the exact sum is a whole number of
\* frames the float sum may lie one unit in the last place below it while
\* the quotient still rounds to that number; the subtraction then leaves
\* that unit below zero instead of zero. Elsewhere a unit in the last place
\* changes neither the frame count nor the side of a bound, and is dropped.
CarryRounding(carried) == IF carried = Rat(0, 1) THEN {-1, 0} ELSE {0}

\* One iteration of the while loop of _generate_realistic_typing_frames.
TypeCharacter ==
    /\ pc = "realistic"
    /\ current_pos < Len(code_blocks[i])
    /\ \E z \in ZDraws, zp \in ZDraws :
         LET it == Iteration(z, zp)
         IN  /\ accumulated_time' = it.carried
             /\ ulps' \in CarryRounding(it.carried)
             /\ current_pos' = current_pos + 1
             /\ out' = Write(out,
                             create_frame(code_blocks[i], current_pos + 1),
                             FramesToWrite(it.frames_to_generate),
                             "realistic")
             /\ typed' = [char               |-> it.char,
                          pause_type         |-> it.pause_type,
                          char_delay         |-> it.char_delay,
                          frames_to_generate |-> it.frames_to_generate,
                          elapsed            |->
                              RatAdd(IF typed = None THEN Rat(0, 1)
                                     ELSE typed.elapsed,
                                     it.char_delay)]
    /\ UNCHANGED << config, typing_realism, code_blocks, languages,
                    highlighted_tokens, pc, i, frame_num, direct >>

\* One iteration of the for loop of _generate_uniform_typing_frames.
UniformFrame ==
    /\ pc = "uniform"
    /\ frame_num < TotalFrames(config, Len(code_blocks[i]))
    /\ out' = Write(out,
                    create_frame(code_blocks[i],
                                 UniformPos(config, frame_num,
                                            Len(code_blocks[i]))),
                    1, "uniform")
    /\ frame_num' = frame_num + 1
    /\ UNCHANGED << config, typing_realism, code_blocks, languages,
                    highlighted_tokens, pc, i, current_pos, accumulated_time,
                    ulps, typed, direct >>

\* The typing loop of the block has ended.
TypingDone ==
    \/ pc = "realistic" /\ current_pos >= Len(code_blocks[i])
    \/ pc = "uniform" /\ frame_num >= TotalFrames(config, Len(code_blocks[i]))

\* Lines 523-526: the final frame is held.
HoldFinalFrame ==
    /\ TypingDone
    /\ out' = Write(out,
                    create_frame(code_blocks[i], Len(code_blocks[i])),
                    HoldFrames(config), "hold")
    /\ pc' = "clear"
    /\ UNCHANGED << config, typing_realism, code_blocks, languages,
                    highlighted_tokens, i, current_pos, accumulated_time,
                    ulps, frame_num, typed, direct >>

\* Lines 528-534: the separator between blocks, none after the last one.
ClearScreen ==
    /\ pc = "clear"
    /\ out' = IF HasNextBlock(i, code_blocks)
              THEN Write(out, "clear", ClearFrames(config), "clear")
              ELSE out
    /\ i' = i + 1
    /\ pc' = "loop"
    /\ UNCHANGED << config, typing_realism, code_blocks, languages,
                    highlighted_tokens, current_pos, accumulated_time, ulps,
                    frame_num, typed, direct >>

\* Lines 536-538: the loop is over and the writer is released.
ReleaseSink ==
    /\ pc = "loop"
    /\ i > Len(code_blocks)
    /\ out' = Finally(out, FALSE)
    /\ pc' = "done"
    /\ UNCHANGED << config, typing_realism, code_blocks, languages,
                    highlighted_tokens, i, current_pos, accumulated_time,
                    ulps, frame_num, typed, direct >>

\* The numbers of frames a write loop of reps iterations may have written
\* when create_frame or one of its out.write calls raises: none, or all but
\* the one that failed.
WrittenBeforeFailure(reps) == {0, Max(reps - 1, 0)}

\* An exception raised inside the typing method of the block: by
\* create_frame, or by out.write, in either schedule.
RaiseWhileTyping ==
    /\ pc \in {"realistic", "uniform"}
    /\ ~TypingDone
    /\ \E z \in ZDraws, zp \in ZDraws :
         LET reps == IF pc = "realistic"
                     THEN FramesToWrite(Iteration(z, zp).frames_to_generate)
                     ELSE 1
             pos  == IF pc = "realistic" THEN current_pos + 1
                     ELSE UniformPos(config, frame_num, Len(code_blocks[i]))
         IN  \E k \in WrittenBeforeFailure(reps) :
                 out' = Finally(Write(out, create_frame(code_blocks[i], pos),
                                      k, pc),
                                TRUE)
    /\ pc' = "raised"
    /\ UNCHANGED << config, typing_realism, code_blocks, languages,
                    highlighted_tokens, i, current_pos, accumulated_time,
                    ulps, frame_num, typed, direct >>

\* An exception raised while the final frame is composed or held.
RaiseWhileHolding ==
    /\ TypingDone
    /\ \E k \in WrittenBeforeFailure(HoldFrames(config)) :
           out' = Finally(Write(out,
                                create_frame(code_blocks[i],
                                             Len(code_blocks[i])),
                                k, "hold"),
                          TRUE)
    /\ pc' = "raised"
    /\ UNCHANGED << config, typing_realism, code_blocks, languages,
                    highlighted_tokens, i, current_pos, accumulated_time,
                    ulps, frame_num, typed, direct >>

\* An exception raised while the separator is composed or written.
RaiseWhileClearing ==
    /\ pc = "clear"
    /\ HasNextBlock(i, code_blocks)
    /\ \E k \in WrittenBeforeFailure(ClearFrames(config)) :
           out' = Finally(Write(out, "clear", k, "clear"), TRUE)
    /\ pc' = "raised"
    /\ UNCHANGED << config, typing_realism, code_blocks, languages,
                    highlighted_tokens, i, current_pos, accumulated_time,
                    ulps, frame_num, typed, direct >>

Next ==
    \/ OpenSink
    \/ BeginBlock
    \/ TypeCharacter
    \/ UniformFrame
    \/ HoldFinalFrame
    \/ ClearScreen
    \/ ReleaseSink

Spec == Init /\ [][Next]_vars

\* generate_video over a sink and a create_frame that may fail: the runs of
\* one typing speed and one hold length, with every step of the try block
\* able to raise.
FailInit ==
    /\ Init
    /\ config.typing_speed = 15
    /\ config.pause_duration = Rat(1, 4)

FailNext ==
    \/ Next
    \/ RaiseWhileTyping
    \/ RaiseWhileHolding
    \/ RaiseWhileClearing

FailSpec == FailInit /\ [][FailNext]_vars

\* generate_video over blocks of every language, known to the highlighter
\* or not, in both schedules.
HighlightInit ==
    /\ config \in { c \in Configs : /\ c.fps = 30
                                    /\ c.typing_speed = 60
                                    /\ c.pause_duration = Rat(1, 4)
                                    /\ c.randomness = 0 }
    /\ typing_realism = [base_speed |-> config.typing_speed,
                         realistic  |-> config.realistic,
                         randomness |-> config.randomness]
    /\ code_blocks \in Runs
    /\ languages \in [1..Len(code_blocks) -> Languages]
    /\ highlighted_tokens = << >>
    /\ pc = "idle"
    /\ i = 1
    /\ current_pos = 0
    /\ accumulated_time = Rat(0, 1)
    /\ ulps = 0
    /\ frame_num = 0
    /\ out = [state |-> "closed", frames |-> << >>, releases |-> 0]
    /\ typed = None
    /\ font = DejaVuSansMono
    /\ theme_manager = None
    /\ args = None
    /\ call = None
    /\ returned = {}
    /\ hits = 0

HighlightSpec == HighlightInit /\ [][Next]_vars

(* ------------------ direct calls of get_character_delay ---------------- *)

\* A TypingRealism built directly, as the tests do, and the arguments its
\* get_character_delay is called with.
DelayInit ==
    /\ typing_realism \in Realisms
    /\ args \in CallArgs
    /\ config = [fps |-> 30, typing_speed |-> typing_realism.base_speed,
                 pause_duration |-> Rat(2, 1),
                 realistic |-> typing_realism.realistic,
                 randomness |-> typing_realism.randomness]
    /\ code_blocks = << >>
    /\ languages = << >>
    /\ highlighted_tokens = << >>
    /\ pc = "idle"
    /\ i = 1
    /\ current_pos = 0
    /\ accumulated_time = Rat(0, 1)
    /\ ulps = 0
    /\ frame_num = 0
    /\ out = [state |-> "closed", frames |-> << >>, releases |-> 0]
    /\ typed = None
    /\ font = DejaVuSansMono
    /\ theme_manager = None
    /\ call = None
    /\ returned = {}
    /\ hits = 0

\* typing_realism.get_character_delay(char, context, position); z is the
\* sample the random source yields if the call draws from it.
CallCharacterDelay ==
    \E z \in ZDraws :
        LET delay == get_character_delay(typing_realism, args.char,
                                         args.context, args.position, z)
        IN  /\ call' = [z |-> z, delay |-> delay]
            /\ returned' = returned \cup {delay}
            /\ hits' = Min(hits + 1, 2)
            /\ UNCHANGED << typing_realism, font, theme_manager, args,
                            pipeline >>

DelayNext == CallCharacterDelay

DelaySpec == DelayInit /\ [][DelayNext]_vars

(* ------------- direct calls of the CodeToVideoGenerator ---------------- *)

\* A generator with or without a font, and a text with its token list.
FrameInit ==
    /\ font \in Fonts
    /\ theme_manager = None
    /\ args \in { [text_content |-> t, highlighted_tokens |-> h] :
                      t \in Texts, h \in UNION { Tokenizations(u) : u \in Texts } }
    /\ args.highlighted_tokens \in Tokenizations(args.text_content)
    /\ config = [fps |-> 30, typing_speed |-> 15,
                 pause_duration |-> Rat(2, 1),
                 realistic |-> TRUE, randomness |-> 1]
    /\ typing_realism = [base_speed |-> 15, realistic |-> TRUE,
                         randomness |-> 1]
    /\ code_blocks = << >>
    /\ languages = << >>
    /\ highlighted_tokens = << >>
    /\ pc = "idle"
    /\ i = 1
    /\ current_pos = 0
    /\ accumulated_time = Rat(0, 1)
    /\ ulps = 0
    /\ frame_num = 0
    /\ out = [state |-> "closed", frames |-> << >>, releases |-> 0]
    /\ typed = None
    /\ call = None
    /\ returned = {}
    /\ hits = 0

\* generator.create_frame(text_content, highlighted_tokens, pos)
CallCreateFrame ==
    /\ \E pos \in 0..Len(args.text_content) :
           call' = [op          |-> "create_frame",
                    current_pos |-> pos,
                    frame       |-> Render(font, args.text_content,
                                           args.highlighted_tokens, pos)]
    /\ UNCHANGED << typing_realism, font, theme_manager, args, returned,
                    hits, pipeline >>

\* generator._calculate_indentation_width(text_content, start_pos)
CallIndentationWidth ==
    /\ \E start_pos \in 0..(Len(args.text_content) + 1) :
           call' = [op        |-> "indentation",
                    start_pos |-> start_pos,
                    width     |-> calculate_indentation_width(
                                      font, args.text_content, start_pos)]
    /\ UNCHANGED << typing_realism, font, theme_manager, args, returned,
                    hits, pipeline >>

FrameNext ==
    \/ CallCreateFrame
    \/ CallIndentationWidth

FrameSpec == FrameInit /\ [][FrameNext]_vars

(* --------------------- direct use of a ThemeManager -------------------- *)

\* A themes directory, before a ThemeManager is built over it.
ThemeInit ==
    /\ args \in { [themes_dir |-> d] : d \in Directories }
    /\ theme_manager = None
    /\ font = DejaVuSansMono
    /\ config = [fps |-> 30, typing_speed |-> 15,
                 pause_duration |-> Rat(2, 1),
                 realistic |-> TRUE, randomness |-> 1]
    /\ typing_realism = [base_speed |-> 15, realistic |-> TRUE,
                         randomness |-> 1]
    /\ code_blocks = << >>
    /\ languages = << >>
    /\ highlighted_tokens = << >>
    /\ pc = "idle"
    /\ i = 1
    /\ current_pos = 0
    /\ accumulated_time = Rat(0, 1)
    /\ ulps = 0
    /\ frame_num = 0
    /\ out = [state |-> "closed", frames |-> << >>, releases |-> 0]
    /\ typed = None
    /\ call = None
    /\ returned = {}
    /\ hits = 0

\* theme_manager = ThemeManager(themes_dir)
ConstructThemeManager ==
    /\ theme_manager = None
    /\ theme_manager' = load_themes(args.themes_dir)
    /\ UNCHANGED << typing_realism, font, args, call, returned, hits,
                    pipeline >>

\* theme_manager.get_theme(theme_name), once the constructor has returned.
CallGetTheme ==
    /\ theme_manager # None
    /\ theme_manager.raised = ""
    /\ \E theme_name \in ThemeNames :
           call' = [op         |-> "get_theme",
                    theme_name |-> theme_name,
                    result     |-> get_theme(theme_manager.value, theme_name)]
    /\ UNCHANGED << typing_realism, font, theme_manager, args, returned,
                    hits, pipeline >>

ThemeNext ==
    \/ ConstructThemeManager
    \/ CallGetTheme

ThemeSpec == ThemeInit /\ [][ThemeNext]_vars

(* ------------------------------ properties ----------------------------- *)

Last(s) == s[Len(s)]

\* The entries the typing loop of block b has written, in order.
TypingEntries(b) ==
    SelectSeq(out.frames,
              LAMBDA e : e.block = b /\ e.by \in {"realistic", "uniform"})

\* The entries written for block b by its typing loop and its hold, in order.
BlockEntries(b) ==
    SelectSeq(out.frames, LAMBDA e : e.block = b /\ e.by # "clear")

\* The typing loop of block b has run to its end.
TypingComplete(b) == b < i \/ (b = i /\ (pc = "clear" \/ TypingDone))

\* The typing loop of block b has been entered.
TypingStarted(b) ==
    b < i \/ (b = i /\ pc \in {"realistic", "uniform", "clear"})

\* C1: in both schedules, once the typing loop of a block has ended, the last
\* frame it wrote reveals exactly len(code) characters.
C1_LastTypingFrameRevealsAll ==
    \A b \in 1..Len(code_blocks) :
        TypingComplete(b) =>
            /\ TypingEntries(b) # << >>
            /\ Last(TypingEntries(b)).frame.revealed = Len(code_blocks[b])

\* C2: in both schedules every reveal count handed to create_frame lies in
\* 0..len(code), and over the frames written for one block (typing, then
\* hold) it never decreases.
C2_RevealInRangeAndMonotone ==
    \A b \in 1..Len(code_blocks) :
        LET written == BlockEntries(b) IN
        /\ \A k \in 1..Len(written) :
               /\ 0 <= written[k].frame.revealed
               /\ written[k].frame.revealed <= Len(code_blocks[b])
        /\ \A k \in 1..(Len(written) - 1) :
               written[k].frame.revealed <= written[k + 1].frame.revealed

\* A block typed by the uniform schedule over several frames whose reveal
\* count went up, and then held.
C2_Witness ==
    /\ pc = "done"
    /\ \E b \in 1..Len(code_blocks) :
           LET written == BlockEntries(b) IN
           /\ Len(written) >= 4
           /\ Last(written).by = "hold"
           /\ written[1].by = "uniform"
           /\ written[1].frame.revealed < written[Len(written) - 1].frame.revealed

\* C3: in the realistic schedule the typing loop writes the reveal counts
\* 1, 2, ..., one entry per character in this order, up to the character just
\* typed (all of 1..len(code) once the loop has ended); the character just
\* typed was written once when its frames_to_generate came out 0 and
\* frames_to_generate times otherwise.
C3_EveryCharacterGetsItsFrames ==
    \A b \in 1..Len(code_blocks) :
        (TypingStarted(b) /\ Schedule(config) = "realistic") =>
            LET written == TypingEntries(b) IN
            /\ Len(written) = IF TypingComplete(b) THEN Len(code_blocks[b])
                              ELSE current_pos
            /\ \A k \in 1..Len(written) : written[k].frame.revealed = k
            /\ (b = i /\ pc = "realistic" /\ typed # None) =>
                   /\ typed.frames_to_generate >= 0
                   /\ Last(written).n = IF typed.frames_to_generate = 0 THEN 1
                                        ELSE typed.frames_to_generate

\* The last character of a block was typed with frames_to_generate = 0.
C3_Witness ==
    /\ pc = "realistic"
    /\ typed # None
    /\ typed.frames_to_generate = 0
    /\ current_pos = Len(code_blocks[i])
    /\ Len(TypingEntries(i)) = current_pos

\* The pause class the claim gives a character.
ClaimedPauseType(char) ==
    IF char \in {",", ";"} THEN "comma"
    ELSE IF char \in {".", "!", "?"} THEN "period"
    ELSE IF char = "\n" THEN "newline"
    ELSE IF char \in {"{", "}", "[", "]", "(", ")"} THEN "brace"
    ELSE "none"

\* C4: the realistic loop gives each character the one pause of its class:
\* comma for , and ; -- period for . ! ? -- newline for the newline -- brace
\* for { } [ ] ( ) -- and no pause for any other character.  Stated for
\* realistic = True, where the pauses of different classes differ in length.
C4_PauseByCharacterClass ==
    (typed # None /\ config.realistic) =>
        typed.pause_type = ClaimedPauseType(typed.char)

\* The multipliers of the entries of table whose pattern occurs in window.
Matching(table, window) ==
    { table[k][2] : k \in { j \in 1..Len(table) : Contains(table[j][1], window) } }

Smallest(S) == CHOOSE x \in S : \A y \in S : x <= y

Largest(S) == CHOOSE x \in S : \A y \in S : x >= y

\* base_delay * difficulty * multiplier for the arguments of the direct calls.
DelayWith(multiplier) ==
    RatMul(RatMul(Rat(1, typing_realism.base_speed), Difficulty(args.char)),
           multiplier)

DirectWindow == Window(args.context, args.position)

Realistic == typing_realism.realistic

NoRandomness == typing_realism.randomness = 0

\* C5: in realistic mode (no randomness), when only fast patterns occur in
\* the window the delay carries the smallest multiplier among the matching
\* fast entries, and when only slow patterns occur it carries the largest
\* multiplier among the matching slow entries.
C5_BestMatchingMultiplier ==
    (call # None /\ Realistic /\ NoRandomness) =>
        LET fast == Matching(fast_patterns, DirectWindow)
            slow == Matching(slow_patterns, DirectWindow)
        IN  /\ (fast # {} /\ slow = {}) =>
                   call.delay = DelayWith(Tenths(Smallest(fast)))
            /\ (slow # {} /\ fast = {}) =>
                   call.delay = DelayWith(Tenths(Largest(slow)))

\* C6: in realistic mode (no randomness), when the window holds both a fast
\* and a slow pattern the delay reflects both: the fast pattern makes it
\* smaller than the slow multiplier alone would.
C6_FastAndSlowCombine ==
    (call # None /\ Realistic /\ NoRandomness) =>
        LET window == DirectWindow IN
        (FirstMatch(fast_patterns, window) # 0
             /\ FirstMatch(slow_patterns, window) # 0) =>
            RatLt(call.delay, DelayWith(SlowLoop(Rat(1, 1), window)))

\* C7: whatever the configuration, the arguments and the gauss sample,
\* get_character_delay returns at least (1/base_speed) * 0.2, which is positive.
C7_MinimumDelay ==
    call # None =>
        /\ RatLeq(RatMul(Rat(1, typing_realism.base_speed), Rat(2, 10)),
                  call.delay)
        /\ call.delay.n > 0

\* A call whose large negative draw was cut off at the floor.
C7_Witness ==
    /\ call # None
    /\ typing_realism.randomness > 0
    /\ call.z = -MaxZ
    /\ call.delay = RatMul(Rat(1, typing_realism.base_speed), Rat(2, 10))

\* C8: with realistic = False and randomness = 0, get_character_delay
\* returns exactly 1/base_speed whatever the character, context and position.
C8_UniformDelayExact ==
    (call # None /\ ~Realistic /\ NoRandomness) =>
        call.delay = Rat(1, typing_realism.base_speed)

\* Such a call for a hard key inside a window that holds patterns.
C8_Witness ==
    /\ call # None
    /\ ~Realistic
    /\ NoRandomness
    /\ args.char = "!"
    /\ FirstMatch(slow_patterns, DirectWindow) # 0
    /\ call.delay = Rat(1, typing_realism.base_speed)

\* C9: with realistic = True and randomness = 0, all calls with the same
\* arguments return the same delay, whatever sample the random source holds.
C9_RepeatableWithoutRandomness ==
    (Realistic /\ NoRandomness) => Cardinality(returned) <= 1

\* Two or more such calls, the last one with a far-off sample in the source.
C9_Witness ==
    /\ Realistic
    /\ NoRandomness
    /\ hits = 2
    /\ call.z = -MaxZ
    /\ Cardinality(returned) = 1

\* C10: generate_video types a block with the uniform schedule exactly when
\* realistic is False and randomness is 0, otherwise with the realistic one,
\* and every block of the run is typed by that same schedule.
C10_ScheduleChoice ==
    LET chosen == IF ~config.realistic /\ config.randomness = 0
                  THEN "uniform" ELSE "realistic"
    IN  /\ pc \in {"realistic", "uniform"} => pc = chosen
        /\ \A k \in 1..Len(out.frames) :
               out.frames[k].by \in {"realistic", "uniform"} =>
                   out.frames[k].by = chosen

\* A finished run of several blocks with realistic = False and randomness > 0.
C10_Witness ==
    /\ pc = "done"
    /\ Len(code_blocks) >= 2
    /\ ~config.realistic
    /\ config.randomness > 0
    /\ \A b \in 1..Len(code_blocks) : TypingEntries(b) # << >>

\* generate_video has been left, normally or by an exception.
Exited == pc \in {"done", "raised"}

\* C11: once generate_video has opened the sink, the sink is released exactly
\* once on every way out of it -- the normal end, or a failure of frame
\* composition or of a write during the typing, hold or separator frames --
\* it is not released before that, and no frame is written after the release.
C11_ReleasedExactlyOnce ==
    /\ [](Exited => (out.state = "released" /\ out.releases = 1))
    /\ [](pc \notin {"idle", "done", "raised"} =>
              (out.state = "open" /\ out.releases = 0))
    /\ [][out.state = "released" => out' = out]_vars

\* generate_video left by an exception of the last write of a hold, after
\* the other hold frames of the block were written.
C11_Witness ==
    /\ pc = "raised"
    /\ out.releases = 1
    /\ out.frames # << >>
    /\ Last(out.frames).by = "hold"
    /\ Last(out.frames).n = HoldFrames(config) - 1

\* The positions in out.frames of the entries that satisfy Test.
Where(Test(_)) == { k \in 1..Len(out.frames) : Test(out.frames[k]) }

\* The hold of block b has been written.
HoldDone(b) == b < i \/ (b = i /\ pc = "clear")

\* The separator step of block b has been passed.
ClearDone(b) == b < i

\* C12: for every block, in both schedules, the fully revealed frame
\* (reveal count len(code), no cursor) is written exactly
\* int(fps * pause_duration) times, after all the typing frames of the block
\* and before any frame of a later block or of its own separator; until the
\* typing loop has ended no hold frame of the block is written.
C12_HoldOfFinalFrame ==
    \A b \in 1..Len(code_blocks) :
        LET holds  == Where(LAMBDA e : e.block = b /\ e.by = "hold")
            typing == Where(LAMBDA e : e.block = b /\
                                            e.by \in {"realistic", "uniform"})
            later  == Where(LAMBDA e : e.block > b \/
                                            (e.block = b /\ e.by = "clear"))
            count  == (config.fps * config.pause_duration.n)
                          \div config.pause_duration.d
        IN  IF HoldDone(b)
            THEN /\ Cardinality(holds) = 1
                 /\ \A h \in holds :
                        /\ out.frames[h].n = count
                        /\ out.frames[h].frame.revealed = Len(code_blocks[b])
                        /\ ~out.frames[h].frame.cursor
                        /\ \A t \in typing : t < h
                        /\ \A l \in later : h < l
            ELSE holds = {}

\* A finished run of several blocks, in the uniform schedule, whose hold
\* length fps * pause_duration is not a whole number of frames.
C12_Witness ==
    /\ pc = "done"
    /\ Len(code_blocks) >= 2
    /\ Schedule(config) = "uniform"
    /\ config.fps = 15
    /\ config.pause_duration = Rat(1, 4)
    /\ \E k \in 1..Len(out.frames) :
           out.frames[k].by = "hold" /\ out.frames[k].n = 3

\* C13: a run of n blocks writes exactly n - 1 separators: once the hold of
\* a block other than the last is over, exactly int(fps * 0.5) background
\* frames are written after that hold and before the first frame of the next
\* block; the last block is followed by none.
C13_SeparatorBetweenBlocks ==
    \A b \in 1..Len(code_blocks) :
        LET clears == Where(LAMBDA e : e.block = b /\ e.by = "clear")
            own    == Where(LAMBDA e : e.block = b /\ e.by # "clear")
            next   == Where(LAMBDA e : e.block > b)
        IN  IF ClearDone(b) /\ b < Len(code_blocks)
            THEN /\ Cardinality(clears) = 1
                 /\ \A c \in clears :
                        /\ out.frames[c].n = config.fps \div 2
                        /\ out.frames[c].frame = "clear"
                        /\ \A o \in own : o < c
                        /\ \A x \in next : c < x
            ELSE clears = {}

\* A finished run of three blocks at 15 frames per second: two separators
\* of 7 frames each.
C13_Witness ==
    /\ pc = "done"
    /\ Len(code_blocks) = 3
    /\ config.fps = 15
    /\ Cardinality(Where(LAMBDA e : e.by = "clear" /\ e.n = 7)) = 2

\* The 0-based positions of the newlines among the first pos characters.
NewlinesBefore(text, pos) == { k \in 0..(pos - 1) : text[k + 1] = "\n" }

\* Where the pen stands once the first pos characters of text are drawn: one
\* line lower per newline; from the left margin, or from the indentation of
\* the line begun last, one glyph to the right per character of that line
\* when there is a font.
FinalPen(f, text, pos) ==
    LET newlines == NewlinesBefore(text, pos)
        begun    == IF newlines = {} THEN 0 ELSE Largest(newlines) + 1
        indent   == IF newlines = {} THEN 0
                    ELSE calculate_indentation_width(f, text, begun)
        glyph    == IF f = None THEN 0 ELSE f.space_width
    IN  [x |-> left_margin + indent + (pos - begun) * glyph,
         y |-> left_margin + Cardinality(newlines) * line_height]

\* C14: create_frame draws the cursor bar exactly when current_pos <
\* len(text_content), current_pos 0 included, as the bar 2 wide and font_size
\* high whose corner is the final pen position; the frame that reveals the
\* whole text has no cursor.
C14_CursorIffTextRemains ==
    (call # None /\ call.op = "create_frame") =>
        LET pen == FinalPen(font, args.text_content, call.current_pos) IN
        /\ call.frame.pen = pen
        /\ call.frame.cursor # None <=>
               call.current_pos < Len(args.text_content)
        /\ call.frame.cursor # None =>
               call.frame.cursor =
                   << pen.x, pen.y, pen.x + 2, pen.y + font_size >>
        /\ call.current_pos = Len(args.text_content) =>
               call.frame.cursor = None

\* A frame drawn with a font over several tokens whose cursor stands on an
\* indented second line.
C14_Witness ==
    /\ call # None
    /\ call.op = "create_frame"
    /\ font # None
    /\ Len(args.highlighted_tokens) = 2
    /\ call.current_pos < Len(args.text_content)
    /\ NewlinesBefore(args.text_content, call.current_pos) # {}
    /\ call.frame.cursor # None
    /\ call.frame.cursor[1] > left_margin
    /\ call.frame.cursor[2] > left_margin

\* The characters from the 0-based position start on that are spaces or
\* tabs with nothing else before them.
IndentRun(text, start) ==
    { k \in start..(Len(text) - 1) :
          \A j \in start..k : text[j + 1] \in {" ", "\t"} }

\* One unit per space and four per tab of that run.
Units(text, start) ==
    Cardinality(IndentRun(text, start)) +
    3 * Cardinality({ k \in IndentRun(text, start) : text[k + 1] = "\t" })

\* The pixels of one unit: the width of the space glyph, 8 without a font.
UnitWidth(f) == IF f = None THEN 8 ELSE f.space_width

\* C18: _calculate_indentation_width(text, start) is 0 when start >=
\* len(text); otherwise it is the units of the run of spaces and tabs that
\* begins at start (space 1, tab 4) times the width of the space glyph, 8
\* without a font; so, the glyph width being positive, more units give a
\* strictly greater width.
C18_IndentationWidth ==
    /\ (call # None /\ call.op = "indentation") =>
           call.width = IF call.start_pos >= Len(args.text_content) THEN 0
                        ELSE Units(args.text_content, call.start_pos)
                                 * UnitWidth(font)
    /\ args # None /\ "text_content" \in DOMAIN args =>
           \A s1, s2 \in 0..Len(args.text_content) :
               (UnitWidth(font) > 0 /\
                Units(args.text_content, s1) < Units(args.text_content, s2))
                   => calculate_indentation_width(font, args.text_content, s1)
                        < calculate_indentation_width(font, args.text_content,
                                                      s2)

\* The call after the second newline of "f:\n    a\n        b": 8
\* units, against 4 after the first newline.
C18_Witness ==
    /\ call # None
    /\ call.op = "indentation"
    /\ Len(args.text_content) = 18
    /\ call.start_pos = 9
    /\ call.width = 8 * UnitWidth(font)
    /\ calculate_indentation_width(font, args.text_content, 3)
           = 4 * UnitWidth(font)

\* The .json files of the directory the manager was built over, in the
\* order of the listing.
JsonFiles ==
    IF args.themes_dir = None THEN << >>
    ELSE SelectSeq(args.themes_dir.listing, LAMBDA f : f.ext = ".json")

\* The Theme a well-formed file holds.
ThemeOfFile(f) ==
    [name        |-> f.text.data.dict.name,
     description |-> JStr("a theme"),
     background  |-> <<1, 2, 3>>,
     cursor      |-> <<4, 5, 6>>,
     colors      |-> [default |-> <<7, 8, 9>>]]

IsWellFormed(f) == f.text \in {WellFormed("Solar"), WellFormed("Midnight")}

\* The directory is absent, empty, or holds well-formed theme files only.
OnlyWellFormedThemes ==
    \A k \in 1..Len(JsonFiles) : IsWellFormed(JsonFiles[k])

\* get_theme was called with a name that is not among the loaded themes.
AskedUnknownTheme ==
    /\ call # None
    /\ call.op = "get_theme"
    /\ call.theme_name \notin Keys(theme_manager.value)

C16_MalformedThemeSkipped ==
    theme_manager # None =>
        /\ theme_manager.raised = ""
        /\ \A k \in 1..Len(JsonFiles) :
               IsWellFormed(JsonFiles[k]) =>
                   /\ JsonFiles[k].stem \in Keys(theme_manager.value)
                   /\ Stored(theme_manager.value, JsonFiles[k].stem)
                          = ThemeOfFile(JsonFiles[k])

\* The languages for which highlighting cannot succeed: plain text, no
\* language, a name no lexer is registered for, a lexer that fails.
Unhighlighted == {"text", "", "nosuch", "broken"}

\* The hold of block b is among the frames written.
Held(b) == \E k \in 1..Len(out.frames) :
               out.frames[k].block = b /\ out.frames[k].by = "hold"

\* C17: get_highlighted_text lets no failure out: for the language 'text' or
\* an empty one, and when the lexer lookup or the tokenization fails, it
\* returns exactly the one token (code, 'default'); generate_video is then
\* never left by an exception: it types the block with that token, holds
\* it, and ends only past the last block, every block typed and held.
C17_HighlightFailureDegrades ==
    /\ \A code \in Snippets, language \in Unhighlighted :
           LET highlighted == get_highlighted_text(code, language) IN
           /\ highlighted.raised = ""
           /\ highlighted.value = << <<code, "default">> >>
    /\ pc # "raised"
    /\ (pc \in {"realistic", "uniform", "clear"}
            /\ languages[i] \in Unhighlighted) =>
           highlighted_tokens = << <<code_blocks[i], "default">> >>
    /\ \A b \in 1..Len(code_blocks) :
           /\ TypingComplete(b) => TypingEntries(b) # << >>
           /\ HoldDone(b) => Held(b)
           /\ pc = "done" => Held(b)

\* A finished run of three blocks, the first of an unknown language and the
\* second of a language whose lexer fails, all three typed and held.
C17_Witness ==
    /\ pc = "done"
    /\ Len(code_blocks) = 3
    /\ languages = <<"nosuch", "broken", "python">>
    /\ highlighted_tokens # << <<code_blocks[3], "default">> >>
    /\ \A b \in 1..3 : TypingEntries(b) # << >> /\ Held(b)

\* The number of frames the entries of s stand for.
RECURSIVE FramesOf(_)
FramesOf(s) == IF s = << >> THEN 0 ELSE Head(s).n + FramesOf(Tail(s))

\* The float accumulated_time is not below zero: the rational is positive,
\* or it is zero and no unit in the last place is missing.
CarryNonNegative ==
    \/ accumulated_time.n > 0
    \/ accumulated_time.n = 0 /\ ulps >= 0

\* C19: in the time-driven schedule, after each character the carried
\* accumulated_time satisfies 0 <= accumulated_time < frame_time, and the
\* typing frames written for the block so far number at least
\* floor(sum of the delays / frame_time) and at least the characters typed.
C19_CarryWithinOneFrame ==
    (pc = "realistic" /\ typed # None) =>
        /\ CarryNonNegative
        /\ RatLt(accumulated_time, FrameTime(config))
        /\ FramesOf(TypingEntries(i))
               >= Trunc(RatDiv(typed.elapsed, FrameTime(config)))
        /\ FramesOf(TypingEntries(i)) >= current_pos

\* ".c" typed at 15 characters a second and 30 frames a second, realistic
\* and without randomness: "c" brings the sum to three whole frames.
C19_ExactFrames ==
    /\ pc = "realistic"
    /\ typed # None
    /\ code_blocks[i] = <<".", "c">>
    /\ current_pos = 2
    /\ config.typing_speed = 15
    /\ config.fps = 30
    /\ config.realistic
    /\ config.randomness = 0
    /\ typed.frames_to_generate = 3
    /\ accumulated_time = Rat(0, 1)
    /\ ulps = -1
====
